---- MODULE Spec2Model ----
(***************************************************************************)
(* Model of the cooldown-synchronised request pipeline of                  *)
(* artifactsmmo_wrapper: CooldownManager, the with_cooldown decorator,     *)
(* ArtifactsAPI._make_request, ArtifactsAPI._raise and                     *)
(* ArtifactsAPI.get_character.                                             *)
(*                                                                         *)
(* Time is a discrete clock; one tick is 50 ms, so the 0.1 s sleep slice   *)
(* of wait_for_cooldown is two ticks.  The game server is the environment: *)
(* it answers every request sent, keeps the character's cooldown           *)
(* expiration, and rejects an action sent during the cooldown with 499.    *)
(* Under Spec two callers share the session over a reliable network; under *)
(* SpecSingle one caller owns it and the network and the server may fail.  *)
(***************************************************************************)
EXTENDS Integers, Sequences, FiniteSets, TLC

\* ------------------------------------------------------------- bounds
MaxTime == 4          \* the clock runs from 0 to MaxTime
MaxCooldown == 2      \* the server's cooldowns last 1..MaxCooldown ticks
MaxCalls == 2         \* top-level calls made in one run
MaxArms == 2          \* direct calls of set_cooldown_from_expiration in one run
MaxLookups == 2       \* calls of get_item in one run
MaxVersion == 2       \* the server's reference data goes through versions 1..MaxVersion
MaxStore == 6         \* records in the list _filter_items is applied to on its own
MaxEntries == 2       \* records the server holds in each category of a session
MaxCells == 3         \* map cells api.maps.get() hands to one ContentMaps object

\* ---------------------------------------------------- program constants
DefaultRetries == 3   \* retries: int = 3
Slice == 2            \* time.sleep(min(remaining, 0.1)), in ticks
NoneTime == -1        \* cooldown_expiration_time = None
PageSize == 100       \* f"items?size=100&page={i+1}"

Threads == {1, 2}

VARIABLES
    now,        \* datetime.now(timezone.utc), in ticks
    srvExp,     \* the server's cooldown expiration of the character
    gateExp,    \* CooldownManager.cooldown_expiration_time
    char,       \* ArtifactsAPI.char (PlayerData)
    th,         \* per caller: position in the code, call frames, error, result
    calls,      \* top-level calls started so far
    callers,    \* the threads that call into the session
    env,        \* "reliable" or "faulty": what the network and server may do
    hist,       \* whether the previous call succeeded; whether auth has failed
    probe,      \* two status codes and what _raise did with each
    gate,       \* the direct calls of set_cooldown_from_expiration so far
    catalogue,  \* the server's reference data of one category
    items,      \* Items.cache and Items.all_items
    look,       \* the caller of Items.get_item: position, locals, what it did
    reader,     \* a second thread that calls Items.get_item
    flt,        \* one call of a filter: the records, the parameters, the result
    repos,      \* the stores of several categories side by side
    cmaps       \* one ContentMaps object: the cells it was given, what it kept

cacheVars == <<catalogue, items, look>>

extraVars == <<reader, flt, repos, cmaps>>

pipeVars == <<now, srvExp, gateExp, char, th, calls, callers, env, hist, probe, gate>>

vars == <<now, srvExp, gateExp, char, th, calls, callers, env, hist, probe,
          gate, cacheVars, extraVars>>

Min(a, b) == IF a < b THEN a ELSE b

\* ----------------------------------------------------------- timestamps
\* The server reports the expiration as a string (two decimal digits here);
\* the gate parses it back into a point of time.
IsoFormat(t) == <<t \div 10, t % 10>>

fromisoformat(s) == s[1] * 10 + s[2]

\* ------------------------------------------------------------- requests
NoJson == [isNone |-> TRUE, val |-> <<>>]

Json(v) == [isNone |-> FALSE, val |-> v]

\* Python truthiness of the json argument: None and {} are falsy.
Truthy(json) == ~json.isNone /\ json.val # <<>>

RECURSIVE lstrip(_)
lstrip(s) == IF s # <<>> /\ Head(s) = "/" THEN lstrip(Tail(s)) ELSE s

RECURSIVE rstrip(_)
rstrip(s) ==
    IF s # <<>> /\ s[Len(s)] = "/" THEN rstrip(SubSeq(s, 1, Len(s) - 1)) ELSE s

\* endpoint.strip("/")
strip(s) == rstrip(lstrip(s))

base_url == <<"https://api.artifactsmmo.com">>

\* url = f"{self.base_url}/{endpoint}"
Url(endpoint) == base_url \o <<"/">> \o endpoint

\* The calls the callers make: Actions.move, Actions.fight, Actions.craft_item
\* and Accounts.get_account.  method and endpoint are passed by position,
\* json and source by keyword.
move ==
    [method |-> "POST", endpoint |-> <<"my", "/", "move">>,
     json |-> Json(<<"x", "y">>), source |-> "move", kwargs |-> {"json", "source"}]

fight ==
    [method |-> "POST", endpoint |-> <<"my", "/", "fight">>,
     json |-> NoJson, source |-> "fight", kwargs |-> {"source"}]

craft_item ==
    [method |-> "POST", endpoint |-> <<"my", "/", "crafting">>,
     json |-> Json(<<"code", "quantity">>), source |-> "craft_item",
     kwargs |-> {"json", "source"}]

get_account ==
    [method |-> "GET", endpoint |-> <<"/", "acounts">>,
     json |-> NoJson, source |-> "get_account", kwargs |-> {"source"}]

get_character_as_plain_request ==
    [method |-> "GET", endpoint |-> <<"characters">>,
     json |-> NoJson, source |-> "get_account", kwargs |-> {"source"}]

\* get_character: self._make_request("GET", endpoint, source="get_character")
get_character_request ==
    [method |-> "GET", endpoint |-> <<"characters">>,
     json |-> NoJson, source |-> "get_character", kwargs |-> {"source"}]

Requests == {move, fight, craft_item, get_account}

\* _cache_items: self.api._make_request("GET", endpoint, source="get_all_items")
get_all_items ==
    [method |-> "GET", endpoint |-> <<"items">>,
     json |-> NoJson, source |-> "get_all_items", kwargs |-> {"source"}]

\* A session that fights and looks reference data up.
SweepRequests == {fight, get_all_items}

\* kwargs.get(name) in the decorator: only what was passed by keyword.
KwGet(f, name) ==
    IF name \in f.kwargs
    THEN (IF name = "source" THEN f.source ELSE f.method)
    ELSE "None"

\* --------------------------------------------------------------- _raise
\* The cases of the match statement, in source order.
RaiseCases ==
    << <<404, "NotFound">>, <<478, "InsufficientQuantity">>,
       <<486, "ActionAlreadyInProgress">>, <<493, "TooLowLevel">>,
       <<496, "TooLowLevel">>, <<497, "InventoryFull">>,
       <<498, "CharacterNotFound">>, <<499, "CharacterInCooldown">>,
       <<497, "GETooMany">>, <<480, "GENoStock">>, <<482, "GENoItem">>,
       <<483, "TransactionInProgress">>, <<486, "InsufficientGold">>,
       <<461, "TransactionInProgress">>, <<462, "BankFull">>,
       <<489, "TaskMasterAlreadyHasTask">>, <<487, "TaskMasterNoTask">>,
       <<488, "TaskMasterTaskNotComplete">>, <<474, "TaskMasterTaskMissing">>,
       <<475, "TaskMasterTaskAlreadyCompleted">>,
       <<473, "RecyclingItemNotRecyclable">>, <<484, "EquipmentTooMany">>,
       <<485, "EquipmentAlreadyEquipped">>, <<491, "EquipmentSlot">>,
       <<490, "NoRaise">>, <<452, "TokenMissingorEmpty">> >>

MatchedCaseLast(code) ==
    LET hits == {i \in 1..Len(RaiseCases) : RaiseCases[i][1] = code}
    IN  IF hits = {} THEN 0 ELSE CHOOSE i \in hits : \A j \in hits : i >= j

\* A match statement runs the first case whose pattern matches.
MatchedCase(code) ==
    LET hits == {i \in 1..Len(RaiseCases) : RaiseCases[i][1] = code}
    IN  IF hits = {} THEN 0 ELSE CHOOSE i \in hits : \A j \in hits : i <= j

\* The status codes the mapping names, success, and one it does not name.
StatusCodes == {RaiseCases[i][1] : i \in 1..Len(RaiseCases)} \cup {200, 500}

\* The error kinds of the taxonomy: the APIException classes that stand for
\* a domain condition.
ErrorKinds ==
    {"NotFound", "ActionAlreadyInProgress", "CharacterInCooldown", "TooLowLevel",
     "InventoryFull", "InsufficientQuantity", "GETooMany", "GENoStock", "GENoItem",
     "TransactionInProgress", "InsufficientGold", "TaskMasterNoTask",
     "TaskMasterAlreadyHasTask", "TaskMasterTaskNotComplete",
     "TaskMasterTaskMissing", "TaskMasterTaskAlreadyCompleted",
     "RecyclingItemNotRecyclable", "EquipmentTooMany", "EquipmentAlreadyEquipped",
     "EquipmentSlot", "BankFull", "TokenMissingorEmpty", "NameAlreadyUsed",
     "MaxCharactersReached"}

_raise_unlisted_returns(code) ==
    LET i == MatchedCase(code)
    IN  IF i # 0 THEN RaiseCases[i][2] ELSE "NoRaise"

\* The error kind _raise(code, m) raises, "NoRaise" when it returns.
_raise(code) ==
    LET i == MatchedCase(code)
    IN  IF i # 0 /\ RaiseCases[i][2] # "NoRaise" THEN RaiseCases[i][2]
        ELSE IF code # 200 /\ code # 490 THEN "Exception"
        ELSE "NoRaise"

\* ------------------------------------------------------------- messages
NoMsg ==
    [code |-> 0, endpoint |-> <<>>, hasBody |-> FALSE, body |-> <<>>,
     source |-> "None"]

\* message = f"An error occurred. Returned code {status}, ... Endpoint: {endpoint}"
\* message += f", Body: {json}" if json else ""
\* message += f", Source: {source}" if source else ""
MessageWithoutBody(status, endpoint, json, source) ==
    [code |-> status, endpoint |-> endpoint, hasBody |-> FALSE, body |-> <<>>,
     source |-> source]

Message(status, endpoint, json, source) ==
    [code |-> status, endpoint |-> endpoint, hasBody |-> Truthy(json),
     body |-> IF Truthy(json) THEN json.val ELSE <<>>, source |-> source]

NoErr == [kind |-> "None", msg |-> NoMsg]

Err(kind, msg) == [kind |-> kind, msg |-> msg]

\* --------------------------------------------------------------- frames
NoResp == [status |-> 0, bodyOk |-> FALSE]

NoWire == [method |-> "None", url |-> <<>>, json |-> NoJson]

\* One call of _make_request with its arguments; the retries of the call
\* re-enter it with new arguments and stay in the same frame.
NewFrame(r) ==
    [method |-> r.method, endpoint |-> r.endpoint, json |-> r.json,
     source |-> r.source, retries |-> DefaultRetries, kwargs |-> r.kwargs,
     resp |-> NoResp, nsent |-> 0, first |-> NoWire, last |-> NoWire]

\* return self._make_request(method, endpoint, json, source, retries):
\* every argument by position, after retries -= 1 and with the endpoint
\* already stripped by the failed attempt.
RetryDropsJson(f) ==
    [f EXCEPT !.endpoint = strip(f.endpoint), !.retries = f.retries - 1,
              !.json = NoJson, !.kwargs = {}, !.resp = NoResp]

RetryArgsKeepsCount(f) ==
    [f EXCEPT !.endpoint = strip(f.endpoint), !.kwargs = {}, !.resp = NoResp]

RetryArgs(f) ==
    [f EXCEPT !.endpoint = strip(f.endpoint), !.retries = f.retries - 1,
              !.kwargs = {}, !.resp = NoResp]

IdleThread ==
    [pc |-> "idle", stack |-> <<>>, err |-> NoErr, result |-> "none",
     wakeAt |-> 0, accepted |-> FALSE, refreshed |-> FALSE]

Top(t) == th[t].stack[Len(th[t].stack)]

SetTop(stack, f) == [stack EXCEPT ![Len(stack)] = f]

Pop(stack) == SubSeq(stack, 1, Len(stack) - 1)

\* (also: whether the requests of the running call are counted, and how many
\* it has sent so far)
NoHist == [prevOk |-> FALSE, auth |-> "ok", counting |-> FALSE, sent |-> 0]

\* The direct calls of set_cooldown_from_expiration: how many so far, the
\* point of time the last one named, and what the gate held before it.
NoGate == [arms |-> 0, t |-> NoneTime, prev |-> NoneTime]

\* ------------------------------------------------------- reference data
\* The numbers of records a category may have on the server: none, one,
\* and the numbers around one and two full pages.
Sizes ==
    {0, 1, PageSize - 1, PageSize, PageSize + 1, 2 * PageSize, 2 * PageSize + 1}

\* item['craft']: None, or the skill and the codes of the materials.
NoCraft == [isNone |-> TRUE, skill |-> "None", items |-> <<>>]

Craft(skill, materials) == [isNone |-> FALSE, skill |-> skill, items |-> materials]

\* Record i of the catalogue in version v; its code is its natural key.
\* Odd records are craftable weapons, even ones are resources.
Record(v, i) ==
    [code |-> i, version |-> v, level |-> (i % 3) + 1,
     type |-> IF i % 2 = 1 THEN "weapon" ELSE "resource",
     name |-> IF i % 2 = 1 THEN <<"B", "o", "w">> ELSE <<"A", "s", "h">>,
     craft |-> IF i % 2 = 1 THEN Craft("weaponcrafting", <<"ash">>) ELSE NoCraft]

Records(c) == [i \in 1..c.n |-> Record(c.version, i - c.shift)]

\* The server's answer to GET items?size=..&page=..: the number of pages at
\* that size and the records of the page.
ServerPage(c, size, page) ==
    [pages |-> (c.n + size - 1) \div size,
     data |-> SubSeq(Records(c), (page - 1) * size + 1, Min(page * size, c.n))]

\* ------------------------------------------------------------- filters
\* The values a caller passes in params: a number, a string taken whole, a
\* string given letter by letter (a name pattern), or a list of strings.
NoneVal == [kind |-> "None", n |-> 0, s |-> "", l |-> <<>>]

Num(n) == [kind |-> "int", n |-> n, s |-> "", l |-> <<>>]

Str(s) == [kind |-> "str", n |-> 0, s |-> s, l |-> <<>>]

Chars(l) == [kind |-> "chars", n |-> 0, s |-> "", l |-> l]

List(l) == [kind |-> "list", n |-> 0, s |-> "", l |-> l]

\* One entry of params; the key is <<"~", name>> or <<name>>.
Param(key, value) == [key |-> key, value |-> value]

\* item.get(key)
PyGet(item, key) ==
    CASE key = <<"type">> -> Str(item.type)
      [] key = <<"level">> -> Num(item.level)
      [] key = <<"code">> -> Num(item.code)
      [] OTHER -> NoneVal

\* re.IGNORECASE
Lower(ch) ==
    CASE ch = "A" -> "a"
      [] ch = "B" -> "b"
      [] ch = "S" -> "s"
      [] ch = "O" -> "o"
      [] OTHER -> ch

\* re.compile(value, re.IGNORECASE).search(name), for a pattern of letters
search(pattern, name) ==
    \E i \in 0..(Len(name) - Len(pattern)) :
        \A j \in 1..Len(pattern) : Lower(name[i + j]) = Lower(pattern[j])

PredicateStrict(key, value, item) ==
    CASE key = <<"craft_material">> ->
             /\ ~item.craft.isNone
             /\ \E j \in 1..Len(item.craft.items) : Str(item.craft.items[j]) = value
      [] key = <<"craft_skill">> -> ~item.craft.isNone /\ Str(item.craft.skill) = value
      [] key = <<"max_level">> -> item.level < value.n
      [] key = <<"min_level">> -> item.level > value.n
      [] key = <<"name">> -> search(value.l, item.name)
      [] key = <<"item_type">> -> Str(item.type) = value
      [] OTHER -> TRUE

\* _filter_items, lines 1047-1064: the test one key applies to an item; a
\* key that has no branch filters nothing.
Predicate(key, value, item) ==
    CASE key = <<"craft_material">> ->
             /\ ~item.craft.isNone
             /\ \E j \in 1..Len(item.craft.items) : Str(item.craft.items[j]) = value
      [] key = <<"craft_skill">> -> ~item.craft.isNone /\ Str(item.craft.skill) = value
      [] key = <<"max_level">> -> item.level <= value.n
      [] key = <<"min_level">> -> item.level >= value.n
      [] key = <<"name">> -> search(value.l, item.name)
      [] key = <<"item_type">> -> Str(item.type) = value
      [] OTHER -> TRUE

\* or_conditions[key].append(value), creating the list when the key is new
OrAppend(ors, key, value) ==
    IF \E j \in 1..Len(ors) : ors[j].key = key
    THEN [j \in 1..Len(ors) |->
             IF ors[j].key = key
             THEN [ors[j] EXCEPT !.values = Append(@, value)] ELSE ors[j]]
    ELSE Append(ors, [key |-> key, values |-> <<value>>])

\* lines 1037-1064: the loop over params.items()
RECURSIVE FilterLoop(_, _, _)
FilterLoop(params, filtered, ors) ==
    IF params = <<>> THEN [filtered |-> filtered, or_conditions |-> ors]
    ELSE LET key == Head(params).key
             value == Head(params).value
         IN  IF key[1] = "~"
             THEN FilterLoop(Tail(params), filtered, OrAppend(ors, Tail(key), value))
             ELSE FilterLoop(Tail(params),
                             SelectSeq(filtered, LAMBDA item : Predicate(key, value, item)),
                             ors)

\* lines 1066-1068: the loop over or_conditions.items()
RECURSIVE OrLoop(_, _)
OrLoop(ors, filtered) ==
    IF ors = <<>> THEN filtered
    ELSE OrLoop(Tail(ors),
                SelectSeq(filtered, LAMBDA item :
                    \E j \in 1..Len(Head(ors).values) :
                        PyGet(item, Head(ors).key) = Head(ors).values[j]))

_filter_items_last_only(all_items, params) ==
    IF params = <<>> THEN all_items
    ELSE LET loop == FilterLoop(<<params[Len(params)]>>, all_items, <<>>)
         IN  OrLoop(loop.or_conditions, loop.filtered)

\* Items._filter_items(params) on the record list all_items
_filter_items(all_items, params) ==
    LET loop == FilterLoop(params, all_items, <<>>)
    IN  OrLoop(loop.or_conditions, loop.filtered)

\* What get_item returns: a record, None, or a list of records.
NoResult == [kind |-> "none", val |-> <<>>]

cache_subscript(cache, key) ==
    IF key \in DOMAIN cache THEN [kind |-> "item", val |-> <<cache[key]>>]
    ELSE [kind |-> "KeyError", val |-> <<>>]

\* self.cache.get(params["item_code"])
cache_get(cache, key) ==
    IF key \in DOMAIN cache THEN [kind |-> "item", val |-> <<cache[key]>>]
    ELSE [kind |-> "None", val |-> <<>>]

\* "item_code" in params
HasKey(params, key) == \E j \in 1..Len(params) : params[j].key = key

\* params["item_code"]
ValueOf(params, key) ==
    params[CHOOSE j \in 1..Len(params) : params[j].key = key].value

\* get_item, lines 1081-1091
Lookup(store, params) ==
    IF HasKey(params, <<"item_code">>)
    THEN cache_get(store.cache, ValueOf(params, <<"item_code">>).n)
    ELSE [kind |-> "list", val |-> _filter_items(store.all_items, params)]

\* The params the caller of get_item passes: a code that exists in every
\* non-empty catalogue, one that exists in the larger ones, one that never
\* exists, and filters that match some records or none.
LookParams ==
    {<<Param(<<"item_code">>, Num(k))>> : k \in {1, PageSize + 1, 2 * PageSize + 2}}
    \cup {<<Param(<<"min_level">>, Num(3))>>,
          <<Param(<<"item_type">>, Str("tool"))>>,
          <<Param(<<"craft_skill">>, Str("weaponcrafting")),
            Param(<<"max_level">>, Num(2))>>}

\* Items.__init__: self.cache = {}, self.all_items = []
NewItems == [cache |-> <<>>, all_items |-> <<>>]

\* What a call of _make_request made by the sweep may come to: the response
\* body, None when every attempt failed, or an exception of the decorator.
Outcomes == {"body", "None", "raised"}

floor_div(a, b) == a \div b

\* pages = math.ceil(int(res["pages"]) / 100)
ceil_div(a, b) == IF a % b = 0 THEN a \div b ELSE a \div b + 1

\* The count request and the request of page p.
CountRequest == [size |-> 1, page |-> 0]

PageRequest(p) == [size |-> PageSize, page |-> p]

\* {item['code']: item for item in all_items}: a later record of the same
\* code replaces an earlier one.
IndexKeepsFirst(all_items) ==
    [c \in {all_items[j].code : j \in 1..Len(all_items)} |->
        all_items[CHOOSE j \in 1..Len(all_items) :
                      /\ all_items[j].code = c
                      /\ \A k \in 1..(j - 1) : all_items[k].code # c]]

IndexFirstRecord(all_items) ==
    [c \in {all_items[j].code : j \in 1..Len(all_items)} |-> all_items[1]]

Index(all_items) ==
    [c \in {all_items[j].code : j \in 1..Len(all_items)} |->
        LET last == CHOOSE j \in 1..Len(all_items) :
                       /\ all_items[j].code = c
                       /\ \A k \in (j + 1)..Len(all_items) : all_items[k].code # c
        IN  all_items[last]]

\* The caller of get_item and the locals of _cache_items, with what the
\* caller has done so far: the requests of the sweep in progress (reqs), the
\* store as the sweep found it (before), the sweeps started (sweeps), the
\* lookups returned (done) and those returned since the catalogue last
\* changed (since), whether a request of this sweep failed (bad), whether
\* any call raised (failed), whether the catalogue ever changed (changed).
IdleLook ==
    [pc |-> "idle", pages |-> 0, i |-> 0, all_items |-> <<>>, reqs |-> <<>>,
     before |-> NewItems, swept |-> FALSE, bad |-> FALSE, err |-> "None",
     sweeps |-> 0, calls |-> 0, done |-> 0, since |-> 0,
     failed |-> FALSE, changed |-> FALSE, params |-> <<>>, result |-> NoResult]

\* A second thread in get_item: its position, the records its own sweep
\* collected, and whether its test of all_items found the list empty while
\* the index was already assigned (half).
NoReader == [pc |-> "idle", all_items |-> <<>>, half |-> FALSE, calls |-> 0]

\* A caller of _filter_items: the record list filtered, the params, what
\* the call returned and what it returned for the same params supplied in
\* the opposite order.
NoFilter ==
    [pc |-> "idle", all_items |-> <<>>, params |-> <<>>,
     result |-> <<>>, again |-> <<>>]

\* ---------------------------------------------- the stores of a session
\* The categories of reference data and, for each, the object of the
\* session that keeps it and the attributes that hold its index and list.
Categories == {"items", "maps", "tasks", "rewards"}

Owner(c) ==
    CASE c = "items" -> "Items"
      [] c = "maps" -> "Maps"
      [] c \in {"tasks", "rewards"} -> "Tasks"

IndexAttrShared(c) == "cache"

IndexAttr(c) == IF c = "rewards" THEN "rewards_cache" ELSE "cache"

ListAttr(c) ==
    CASE c = "items" -> "all_items"
      [] c = "maps" -> "all_maps"
      [] c = "tasks" -> "all_tasks"
      [] c = "rewards" -> "all_rewards"

\* Items.__init__, Maps.__init__, Tasks.__init__: every attribute empty
NewObjects ==
    [o \in {Owner(c) : c \in Categories} |->
        [a \in {IndexAttr(c) : c \in {x \in Categories : Owner(x) = o}}
                \cup {ListAttr(c) : c \in {x \in Categories : Owner(x) = o}} |-> <<>>]]

\* Record i of category c on the server.
Entry(c, i) == [code |-> i, of |-> c]

Entries(c, n) == [i \in 1..n |-> Entry(c, i)]

\* No session holds category stores side by side: obj is the attributes of
\* its objects, n the number of records the server has per category, last
\* the category of the last call.
NoRepos == [obj |-> <<>>, n |-> <<>>, last |-> "none", raised |-> FALSE]

\* No ContentMaps object has been constructed.
NoContentMaps == [pc |-> "new", all_maps |-> <<>>, processed |-> 0, maps |-> <<>>]

\* ----------------------------------------------------------------- Init
\* The session has no attribute char yet: __init__ before line 1807.
NoChar == [cooldown_expiration |-> <<>>]

InitCommon ==
    /\ now = 0
    /\ srvExp = 0
    /\ gateExp = NoneTime
    /\ char = [cooldown_expiration |-> IsoFormat(0)]
    /\ th = [t \in Threads |-> IdleThread]
    /\ calls = 0
    /\ hist = NoHist
    /\ gate = NoGate

NoProbe == [a |-> 0, b |-> 0, ka |-> "pending", kb |-> "pending"]

\* No reference data is looked up.
NoCache ==
    /\ catalogue = [version |-> 1, n |-> 0, shift |-> 0]
    /\ items = NewItems
    /\ look = IdleLook
    /\ reader = NoReader
    /\ flt = NoFilter
    /\ repos = NoRepos
    /\ cmaps = NoContentMaps

Init ==
    InitCommon /\ callers = Threads /\ env = "reliable" /\ probe = NoProbe /\ NoCache

InitSingle ==
    InitCommon /\ callers = {1} /\ env = "faulty" /\ probe = NoProbe /\ NoCache

\* _raise on its own: any two status codes, no caller.
InitRaise ==
    /\ InitCommon
    /\ callers = {}
    /\ env = "reliable"
    /\ probe \in [a : StatusCodes, b : StatusCodes, ka : {"pending"}, kb : {"pending"}]
    /\ NoCache

\* ------------------------------------------------------------ the server
PostStatuses == {200, 490, 493, 452, 500}

GetStatuses == {200, 404, 452}

NetFail == [fail |-> TRUE, status |-> 0, bodyOk |-> FALSE, d |-> 0]

Answer(s, b, d) == [fail |-> FALSE, status |-> s, bodyOk |-> b, d |-> d]

\* What the server may answer to a request of frame f sent now.  An action
\* sent during the cooldown is answered 499; an action answered 200 starts a
\* cooldown of d ticks.  In a faulty environment the connection may fail,
\* any status may come back, and the body may be malformed.
Answers(f) ==
    LET bodies == IF env = "faulty" THEN BOOLEAN ELSE {TRUE}
        post == IF env = "faulty" THEN PostStatuses ELSE {200}
        get == IF env = "faulty" THEN GetStatuses ELSE {200}
    IN  (IF env = "faulty" THEN {NetFail} ELSE {})
        \cup
        IF f.method = "POST"
        THEN IF now < srvExp
             THEN {Answer(499, b, 0) : b \in bodies}
             ELSE {Answer(s, b, 0) : s \in post \ {200}, b \in bodies}
                  \cup {Answer(200, b, d) : b \in bodies, d \in 1..MaxCooldown}
        ELSE {Answer(s, b, 0) : s \in get, b \in bodies}

\* The answers a caller about to send may get.
AnswersTo(t) == IF th[t].pc = "send" THEN Answers(Top(t)) ELSE {}

\* ------------------------------------------------------ CooldownManager
is_on_cooldown_reversed == gateExp # NoneTime /\ now > gateExp

is_on_cooldown_one_tick_short == gateExp # NoneTime /\ now + 1 < gateExp

is_on_cooldown_unarmed_counts == gateExp = NoneTime \/ now < gateExp

\* return datetime.now(timezone.utc) < self.cooldown_expiration_time
is_on_cooldown == gateExp # NoneTime /\ now < gateExp

\* ------------------------------------------------------------ the callers
\* A caller invokes one of the session's operations.
Call(t, r) ==
    /\ t \in callers
    /\ th[t].pc = "idle"
    /\ calls < MaxCalls
    /\ th' = [th EXCEPT ![t] =
                 [IdleThread EXCEPT !.pc = "wrapper", !.stack = <<NewFrame(r)>>]]
    /\ calls' = calls + 1
    /\ UNCHANGED <<extraVars, gate, cacheVars, now, srvExp, gateExp, char, callers, env, hist, probe>>

\* An exception leaving the decorator: it is outside every try of the call
\* it wraps.  From the outer call it reaches the caller; from a retry of the
\* character fetch it surfaces inside the try of the request being refreshed.
RaiseFromWrapper(t, kind) ==
    IF Len(th[t].stack) <= 1
    THEN [th[t] EXCEPT !.pc = "done", !.result = "raised", !.err = Err(kind, NoMsg)]
    ELSE [th[t] EXCEPT !.pc = "except", !.stack = Pop(@), !.err = Err(kind, NoMsg)]

\* with_cooldown.wrapper, up to the wait: unless the source keyword says
\* get_character, the gate is armed from self.char.cooldown_expiration.
\* While the session has no char the arming is skipped (hasattr) and the
\* argument char=self.char of wait_for_cooldown raises AttributeError.
Wrapper(t) ==
    /\ th[t].pc = "wrapper"
    /\ IF KwGet(Top(t), "source") # "get_character"
       THEN IF char = NoChar
            THEN /\ th' = [th EXCEPT ![t] = RaiseFromWrapper(t, "AttributeError")]
                 /\ UNCHANGED gateExp
            ELSE /\ gateExp' = fromisoformat(char.cooldown_expiration)
                 /\ th' = [th EXCEPT ![t].pc = "wait"]
       ELSE /\ th' = [th EXCEPT ![t].pc = "send"]
            /\ UNCHANGED gateExp
    /\ UNCHANGED <<extraVars, gate, cacheVars, now, srvExp, char, calls, callers, env, hist, probe>>

\* wait_for_cooldown: the loop test, while self.is_on_cooldown().
WaitTest(t) ==
    /\ th[t].pc = "wait"
    /\ th' = [th EXCEPT ![t].pc = IF is_on_cooldown THEN "remain" ELSE "send"]
    /\ UNCHANGED <<extraVars, gate, cacheVars, now, srvExp, gateExp, char, calls, callers, env, hist, probe>>

\* wait_for_cooldown: the loop body.  The expiration is read without the
\* lock; time.sleep of a negative length raises ValueError.
SleepSlice(t) ==
    /\ th[t].pc = "remain"
    /\ LET remaining == gateExp - now
           d == Min(remaining, Slice)
       IN  th' = [th EXCEPT ![t] =
                     IF d < 0 THEN RaiseFromWrapper(t, "ValueError")
                     ELSE [th[t] EXCEPT !.pc = "sleep", !.wakeAt = now + d]]
    /\ UNCHANGED <<extraVars, gate, cacheVars, now, srvExp, gateExp, char, calls, callers, env, hist, probe>>

\* time.sleep returns once the slice has passed.
Wake(t) ==
    /\ th[t].pc = "sleep"
    /\ now >= th[t].wakeAt
    /\ th' = [th EXCEPT ![t].pc = "wait", ![t].wakeAt = 0]
    /\ UNCHANGED <<extraVars, gate, cacheVars, now, srvExp, gateExp, char, calls, callers, env, hist, probe>>

\* The data the server returns for GET characters/{name}.
ServerCharacter == [cooldown_expiration |-> IsoFormat(srvExp)]

PlayerDataKept(data) == char

\* get_character, lines 1954-2028: self.char = PlayerData(...), every field
\* taken from data.
PlayerData(data) == [cooldown_expiration |-> data.cooldown_expiration]

\* The request of the top frame goes out and its answer is handled, up to the
\* next call the code makes: lines 1834-1851 of _make_request and, for the
\* character fetch, get_character's use of what _make_request returned.
Send(t, ans) ==
    /\ th[t].pc = "send"
    /\ LET f0 == Top(t)
           endpoint == strip(f0.endpoint)
           wire == [method |-> f0.method, url |-> Url(endpoint), json |-> f0.json]
           f == [f0 EXCEPT !.endpoint = endpoint,
                           !.nsent = @ + 1,
                           !.first = IF f0.nsent = 0 THEN wire ELSE @,
                           !.last = wire,
                           !.resp = [status |-> ans.status, bodyOk |-> ans.bodyOk]]
           isAction == f.method = "POST"
           kind == _raise(ans.status)
           m == Message(ans.status, endpoint, f.json, f.source)
           e == IF ans.fail THEN Err("ConnectionError", NoMsg)
                ELSE IF ans.status # 200 /\ ~ans.bodyOk THEN Err("JSONDecodeError", NoMsg)
                ELSE IF ans.status # 200 /\ kind # "NoRaise" THEN Err(kind, m)
                ELSE NoErr
           outer == th[t].stack[1]
       IN  /\ srvExp' = IF isAction /\ ~ans.fail /\ ans.status = 200
                        THEN now + ans.d ELSE srvExp
           /\ hist' = [hist EXCEPT
                  !.auth = IF ~ans.fail /\ ans.status = 452 THEN "failed" ELSE @,
                  !.sent = IF hist.counting THEN @ + 1 ELSE @]
           /\ IF e # NoErr
              THEN \* raised inside the try
                   /\ th' = [th EXCEPT ![t].pc = "except", ![t].err = e,
                                       ![t].stack = SetTop(@, f)]
                   /\ UNCHANGED char
              ELSE IF f.source # "get_character"
              THEN \* self.get_character()
                   /\ th' = [th EXCEPT ![t].pc = "wrapper",
                                ![t].stack = SetTop(@, f) \o <<NewFrame(get_character_request)>>,
                                ![t].refreshed = FALSE,
                                ![t].accepted = @ \/ (isAction /\ ans.status = 200)]
                   /\ UNCHANGED char
              ELSE IF ~ans.bodyOk
              THEN \* return response.json() raises
                   /\ th' = [th EXCEPT ![t].pc = "except",
                                       ![t].err = Err("JSONDecodeError", NoMsg),
                                       ![t].stack = SetTop(@, f)]
                   /\ UNCHANGED char
              ELSE \* the character fetch returned: self.char = PlayerData(...),
                   \* then the refreshed request returns its own response.json()
                   /\ char' = PlayerData(ServerCharacter)
                   /\ th' = [th EXCEPT ![t] =
                         IF Len(th[t].stack) = 1
                         THEN \* the fetch of __init__: get_character returns self.char
                              [th[t] EXCEPT !.pc = "done", !.result = "body",
                                            !.refreshed = TRUE, !.stack = SetTop(@, f)]
                         ELSE IF outer.resp.bodyOk
                         THEN [th[t] EXCEPT !.pc = "done", !.result = "body",
                                            !.refreshed = TRUE, !.stack = Pop(@)]
                         ELSE [th[t] EXCEPT !.pc = "except", !.refreshed = TRUE,
                                            !.err = Err("JSONDecodeError", NoMsg),
                                            !.stack = Pop(@)]]
    /\ UNCHANGED <<extraVars, gate, cacheVars, now, gateExp, calls, callers, env, probe>>

\* except Exception as e: retry through the decorator while retries is not
\* zero; otherwise the function ends without return or raise.  For the
\* character fetch the None it returns fails get_character's .get('data')
\* inside the try of the request being refreshed.
Except(t) ==
    /\ th[t].pc = "except"
    /\ LET f == Top(t)
       IN  th' = [th EXCEPT ![t] =
                 IF f.retries # 0
                 THEN [th[t] EXCEPT !.pc = "wrapper", !.err = NoErr,
                                    !.stack = SetTop(@, RetryArgs(f))]
                 ELSE IF Len(th[t].stack) = 1 /\ f.source = "get_character"
                 THEN [th[t] EXCEPT !.pc = "done", !.result = "raised",
                                    !.err = Err("AttributeError", NoMsg)]
                 ELSE IF Len(th[t].stack) = 1
                 THEN [th[t] EXCEPT !.pc = "done", !.result = "None"]
                 ELSE [th[t] EXCEPT !.pc = "except", !.stack = Pop(@),
                                    !.err = Err("AttributeError", NoMsg)]]
    /\ UNCHANGED <<extraVars, gate, cacheVars, now, srvExp, gateExp, char, calls, callers, env, hist, probe>>

\* with_cooldown.wrapper after the call: the gate is armed again only when
\* the method keyword names a method other than GET.
ArmAfter(t) ==
    KwGet(th[t].stack[1], "method") \notin {"GET", "None"}

\* The call returns to the caller (or raises to it).
Return(t) ==
    /\ th[t].pc = "done"
    /\ gateExp' = IF th[t].result # "raised" /\ ArmAfter(t)
                  THEN fromisoformat(char.cooldown_expiration) ELSE gateExp
    /\ th' = [th EXCEPT ![t] = IdleThread]
    /\ hist' = [hist EXCEPT !.sent = 0, !.prevOk =
                   /\ th[t].result = "body"
                   /\ th[t].stack[1].method = "POST"
                   /\ th[t].stack[1].resp.status = 200]
    /\ UNCHANGED <<extraVars, gate, cacheVars, now, srvExp, char, calls, callers, env, probe>>

\* The clock advances.
Tick ==
    /\ now < MaxTime
    /\ now' = now + 1
    /\ UNCHANGED <<extraVars, gate, cacheVars, srvExp, gateExp, char, th, calls, callers, env, hist, probe>>

Next ==
    \/ \E t \in Threads, r \in Requests : Call(t, r)
    \/ \E t \in Threads : Wrapper(t)
    \/ \E t \in Threads : WaitTest(t)
    \/ \E t \in Threads : SleepSlice(t)
    \/ \E t \in Threads : Wake(t)
    \/ \E t \in Threads : \E ans \in AnswersTo(t) : Send(t, ans)
    \/ \E t \in Threads : Except(t)
    \/ \E t \in Threads : Return(t)
    \/ Tick

\* self._raise(code, m) for each of the two codes.
RaiseA ==
    /\ probe.ka = "pending"
    /\ probe.a # 0
    /\ probe' = [probe EXCEPT !.ka = _raise(probe.a)]
    /\ UNCHANGED <<extraVars, gate, cacheVars, now, srvExp, gateExp, char, th, calls, callers, env, hist>>

RaiseB ==
    /\ probe.kb = "pending"
    /\ probe.b # 0
    /\ probe' = [probe EXCEPT !.kb = _raise(probe.b)]
    /\ UNCHANGED <<extraVars, gate, cacheVars, now, srvExp, gateExp, char, th, calls, callers, env, hist>>

NextRaise == RaiseA \/ RaiseB

\* Callers on two threads share the session.
Spec == Init /\ [][Next]_vars

\* One caller owns the session.
SpecSingle == InitSingle /\ [][Next]_vars

\* The status-code mapping alone.
SpecRaise == InitRaise /\ [][NextRaise]_vars

\* ------------------------------------- sweep requests between actions
NextSweep ==
    \/ \E t \in Threads, r \in SweepRequests : Call(t, r)
    \/ \E t \in Threads : Wrapper(t)
    \/ \E t \in Threads : WaitTest(t)
    \/ \E t \in Threads : SleepSlice(t)
    \/ \E t \in Threads : Wake(t)
    \/ \E t \in Threads : \E ans \in AnswersTo(t) : Send(t, ans)
    \/ \E t \in Threads : Except(t)
    \/ \E t \in Threads : Return(t)
    \/ Tick

\* One caller fights and sweeps reference data.
SpecSweep == InitSingle /\ [][NextSweep]_vars

\* --------------------------------------------------- the gate on its own
\* Threads call the methods of CooldownManager directly.
InitGate ==
    InitCommon /\ callers = Threads /\ env = "reliable" /\ probe = NoProbe /\ NoCache

\* A thread calls wait_for_cooldown.
wait_for_cooldown(t) ==
    /\ t \in callers
    /\ th[t].pc = "idle"
    /\ calls < MaxCalls
    /\ th' = [th EXCEPT ![t].pc = "wait"]
    /\ calls' = calls + 1
    /\ UNCHANGED <<extraVars, gate, cacheVars, now, srvExp, gateExp, char, callers, env, hist, probe>>

set_cooldown_keeps_later(e) ==
    /\ \E t \in callers : th[t].pc = "idle"
    /\ gate.arms < MaxArms
    /\ gateExp' = IF fromisoformat(IsoFormat(e)) > gateExp
                  THEN fromisoformat(IsoFormat(e)) ELSE gateExp
    /\ gate' = [arms |-> gate.arms + 1, t |-> e, prev |-> gateExp]
    /\ UNCHANGED <<extraVars, cacheVars, now, srvExp, char, th, calls, callers, env, hist, probe>>

\* A thread that is not waiting calls set_cooldown_from_expiration with the
\* string that names the point of time e:
\* self.cooldown_expiration_time = datetime.fromisoformat(expiration_time_str)
set_cooldown_from_expiration(e) ==
    /\ \E t \in callers : th[t].pc = "idle"
    /\ gate.arms < MaxArms
    /\ gateExp' = fromisoformat(IsoFormat(e))
    /\ gate' = [arms |-> gate.arms + 1, t |-> e, prev |-> gateExp]
    /\ UNCHANGED <<extraVars, cacheVars, now, srvExp, char, th, calls, callers, env, hist, probe>>

\* wait_for_cooldown has returned, or raised, to the thread that called it.
GateReturn(t) ==
    /\ th[t].pc \in {"send", "done"}
    /\ th[t].stack = <<>>
    /\ th' = [th EXCEPT ![t] = IdleThread]
    /\ UNCHANGED <<extraVars, gate, cacheVars, now, srvExp, gateExp, char, calls, callers, env, hist, probe>>

NextGate ==
    \/ \E t \in Threads : wait_for_cooldown(t)
    \/ \E e \in 0..MaxTime : set_cooldown_from_expiration(e)
    \/ \E t \in Threads : WaitTest(t)
    \/ \E t \in Threads : SleepSlice(t)
    \/ \E t \in Threads : Wake(t)
    \/ \E t \in Threads : GateReturn(t)
    \/ Tick

SpecGate == InitGate /\ [][NextGate]_vars

\* The clock keeps advancing and every thread keeps running.
SpecGateFair ==
    /\ SpecGate
    /\ WF_vars(Tick)
    /\ \A t \in Threads :
          WF_vars(WaitTest(t)) /\ WF_vars(SleepSlice(t)) /\ WF_vars(Wake(t))

\* ------------------------------------------------------ the item store
\* One caller looks items up; the category has any of the sizes.
InitCache ==
    /\ InitCommon /\ callers = {} /\ env = "faulty" /\ probe = NoProbe
    /\ catalogue \in [version : {1}, n : Sizes, shift : {0}]
    /\ items = NewItems
    /\ look = IdleLook
    /\ reader = NoReader
    /\ flt = NoFilter
    /\ repos = NoRepos
    /\ cmaps = NoContentMaps

\* The exception the sweep ends with when _make_request did not return a
\* body: res["pages"] or res["data"] on None, or what the decorator raised.
SweepError(out) == IF out = "None" THEN "TypeError" ELSE "ValueError"

\* get_item, lines 1077-1078: if not self.all_items: self._cache_items()
get_item(params) ==
    /\ look.pc = "idle"
    /\ look.calls < MaxLookups
    /\ look' = IF items.all_items = <<>>
               THEN [look EXCEPT !.pc = "count", !.calls = @ + 1,
                                 !.pages = 0, !.i = 0, !.all_items = <<>>,
                                 !.reqs = <<>>, !.before = items,
                                 !.swept = TRUE, !.bad = FALSE, !.err = "None",
                                 !.sweeps = @ + 1,
                                 !.params = params, !.result = NoResult]
               ELSE [look EXCEPT !.pc = "find", !.calls = @ + 1,
                                 !.reqs = <<>>, !.before = items,
                                 !.swept = FALSE, !.bad = FALSE, !.err = "None",
                                 !.params = params, !.result = NoResult]
    /\ UNCHANGED <<extraVars, catalogue, items, pipeVars>>

\* _cache_items, lines 1008-1013: the request items?size=1 and the number
\* of pages of 100 computed from its answer.
CountPages(out) ==
    /\ look.pc = "count"
    /\ LET res == ServerPage(catalogue, CountRequest.size, 1)
           pages == ceil_div(res.pages, PageSize)
       IN  look' =
             IF out = "body"
             THEN [look EXCEPT !.reqs = Append(@, CountRequest),
                               !.pages = pages, !.i = 0, !.all_items = <<>>,
                               !.pc = IF pages = 0 THEN "store" ELSE "page"]
             ELSE [look EXCEPT !.reqs = Append(@, CountRequest),
                               !.bad = TRUE, !.err = SweepError(out),
                               !.pc = "raised"]
    /\ UNCHANGED <<extraVars, catalogue, items, pipeVars>>

FetchPageInPlace(out) ==
    /\ look.pc = "page"
    /\ LET res == ServerPage(catalogue, PageSize, look.i + 1)
       IN  IF out = "body"
           THEN /\ look' = [look EXCEPT !.reqs = Append(@, PageRequest(look.i + 1)),
                                        !.all_items = @ \o res.data,
                                        !.i = @ + 1,
                                        !.pc = IF look.i + 1 = look.pages
                                               THEN "store" ELSE "page"]
                /\ items' = [items EXCEPT !.all_items = @ \o res.data]
           ELSE /\ look' = [look EXCEPT !.reqs = Append(@, PageRequest(look.i + 1)),
                                        !.bad = TRUE, !.err = SweepError(out),
                                        !.pc = "raised"]
                /\ UNCHANGED items
    /\ UNCHANGED <<extraVars, catalogue, pipeVars>>

\* _cache_items, lines 1016-1020: one turn of the loop, the request
\* items?size=100&page={i+1} and all_items.extend(res["data"]).
FetchPage(out) ==
    /\ look.pc = "page"
    /\ LET res == ServerPage(catalogue, PageSize, look.i + 1)
       IN  look' =
             IF out = "body"
             THEN [look EXCEPT !.reqs = Append(@, PageRequest(look.i + 1)),
                               !.all_items = @ \o res.data,
                               !.i = @ + 1,
                               !.pc = IF look.i + 1 = look.pages
                                      THEN "store" ELSE "page"]
             ELSE [look EXCEPT !.reqs = Append(@, PageRequest(look.i + 1)),
                               !.bad = TRUE, !.err = SweepError(out),
                               !.pc = "raised"]
    /\ UNCHANGED <<extraVars, catalogue, items, pipeVars>>

\* _cache_items, line 1025: the index is assigned from the records the
\* sweep collected.
StoreCache ==
    /\ look.pc = "store"
    /\ items' = [items EXCEPT !.cache = Index(look.all_items)]
    /\ look' = [look EXCEPT !.pc = "store2"]
    /\ UNCHANGED <<extraVars, catalogue, pipeVars>>

\* _cache_items, line 1026: the record list is assigned.
StoreAllItems ==
    /\ look.pc = "store2"
    /\ items' = [items EXCEPT !.all_items = look.all_items]
    /\ look' = [look EXCEPT !.pc = "find"]
    /\ UNCHANGED <<extraVars, catalogue, pipeVars>>

\* get_item, lines 1081-1091: the lookup or the filter, and the return.
ReturnItems ==
    /\ look.pc = "find"
    /\ look' = [look EXCEPT !.pc = "idle", !.done = @ + 1, !.since = @ + 1,
                            !.result = Lookup(items, look.params)]
    /\ UNCHANGED <<extraVars, catalogue, items, pipeVars>>

\* The exception of the sweep leaves _cache_items and get_item.
RaiseItems ==
    /\ look.pc = "raised"
    /\ look' = [look EXCEPT !.pc = "idle", !.failed = TRUE]
    /\ UNCHANGED <<extraVars, catalogue, items, pipeVars>>

\* Between two lookups the server publishes a new version of the category.
ServerUpdate(n) ==
    /\ look.pc = "idle"
    /\ catalogue.version < MaxVersion
    /\ catalogue' = [version |-> catalogue.version + 1, n |-> n, shift |-> 0]
    /\ look' = [look EXCEPT !.changed = TRUE, !.since = 0]
    /\ UNCHANGED <<extraVars, items, pipeVars>>

NextCache ==
    \/ \E params \in LookParams : get_item(params)
    \/ \E out \in Outcomes : CountPages(out)
    \/ \E out \in Outcomes : FetchPage(out)
    \/ StoreCache
    \/ StoreAllItems
    \/ ReturnItems
    \/ RaiseItems
    \/ \E n \in Sizes : ServerUpdate(n)

SpecCache == InitCache /\ [][NextCache]_vars

\* ------------------------------------- the listing moves during a sweep
\* The server gains a record at the head of the listing (shift counts
\* them): every record moves one place down, so the last record of a page
\* already fetched comes again as the first of the next page.
ServerInsert ==
    /\ catalogue.version < MaxVersion
    /\ catalogue' = [version |-> catalogue.version + 1, n |-> catalogue.n + 1,
                     shift |-> catalogue.shift + 1]
    /\ look' = [look EXCEPT !.changed = TRUE]
    /\ UNCHANGED <<extraVars, items, pipeVars>>

NextShift ==
    \/ \E params \in LookParams : get_item(params)
    \/ \E out \in Outcomes : CountPages(out)
    \/ \E out \in Outcomes : FetchPage(out)
    \/ StoreCache
    \/ StoreAllItems
    \/ ReturnItems
    \/ RaiseItems
    \/ ServerInsert

SpecShift == InitCache /\ [][NextShift]_vars

\* ------------------------------------------- two threads on one item store
\* The second thread's get_item, lines 1077-1078: the test of all_items.
ReaderTest ==
    /\ reader.pc = "idle"
    /\ reader.calls < MaxLookups
    /\ reader' = IF items.all_items = <<>>
                 THEN [reader EXCEPT !.pc = "sweep", !.calls = @ + 1,
                                     !.all_items = <<>>,
                                     !.half = items.cache # <<>>]
                 ELSE [reader EXCEPT !.pc = "find", !.calls = @ + 1,
                                     !.half = FALSE]
    /\ UNCHANGED <<flt, repos, cmaps, cacheVars, pipeVars>>

\* The second thread's _cache_items, lines 1008-1020: the count request and
\* the page requests; any of them failing ends the call with an exception.
ReaderSweep(out) ==
    /\ reader.pc = "sweep"
    /\ reader' = IF out = "body"
                 THEN [reader EXCEPT !.pc = "store", !.all_items = Records(catalogue)]
                 ELSE [reader EXCEPT !.pc = "idle"]
    /\ UNCHANGED <<flt, repos, cmaps, cacheVars, pipeVars>>

\* The second thread's _cache_items, line 1025.
ReaderStoreCache ==
    /\ reader.pc = "store"
    /\ items' = [items EXCEPT !.cache = Index(reader.all_items)]
    /\ reader' = [reader EXCEPT !.pc = "store2"]
    /\ UNCHANGED <<flt, repos, cmaps, catalogue, look, pipeVars>>

\* The second thread's _cache_items, line 1026.
ReaderStoreAllItems ==
    /\ reader.pc = "store2"
    /\ items' = [items EXCEPT !.all_items = reader.all_items]
    /\ reader' = [reader EXCEPT !.pc = "find"]
    /\ UNCHANGED <<flt, repos, cmaps, catalogue, look, pipeVars>>

\* The second thread's get_item, lines 1081-1091.
ReaderReturn ==
    /\ reader.pc = "find"
    /\ reader' = [reader EXCEPT !.pc = "idle"]
    /\ UNCHANGED <<flt, repos, cmaps, cacheVars, pipeVars>>

NextSwap ==
    \/ \E params \in LookParams : get_item(params)
    \/ \E out \in Outcomes : CountPages(out)
    \/ \E out \in Outcomes : FetchPage(out)
    \/ StoreCache
    \/ StoreAllItems
    \/ ReturnItems
    \/ RaiseItems
    \/ ReaderTest
    \/ \E out \in Outcomes : ReaderSweep(out)
    \/ ReaderStoreCache
    \/ ReaderStoreAllItems
    \/ ReaderReturn

\* Two threads look items up on one session.
SpecSwap == InitCache /\ [][NextSwap]_vars

\* ------------------------------------------------ _filter_items alone
\* The predicates a caller may put in params: the documented keys with
\* values that match some records, all or none, and OR keys with a list or
\* a single value.
Supplied ==
    {Param(<<"min_level">>, Num(n)) : n \in {1, 2, 3}}
    \cup {Param(<<"max_level">>, Num(n)) : n \in {1, 2, 3}}
    \cup {Param(<<"item_type">>, Str(x)) : x \in {"weapon", "resource", "tool"}}
    \cup {Param(<<"craft_skill">>, Str(x)) : x \in {"weaponcrafting", "mining"}}
    \cup {Param(<<"craft_material">>, Str(x)) : x \in {"ash", "copper"}}
    \cup {Param(<<"name">>, Chars(x)) : x \in {<<"a", "s">>, <<"b", "O">>, <<"x">>}}
    \cup {Param(<<"~", "type">>, List(x)) :
              x \in {<<"weapon", "resource">>, <<"weapon">>}}
    \cup {Param(<<"~", "type">>, Str("weapon"))}

\* params is a dict: one or two entries with different keys, in the order
\* the caller wrote them.
FilterParams ==
    {<<p>> : p \in Supplied}
    \cup {x \in Supplied \X Supplied : x[1].key # x[2].key}

Reverse(seq) == [i \in 1..Len(seq) |-> seq[Len(seq) + 1 - i]]

InitFilter ==
    /\ InitCommon /\ callers = {} /\ env = "reliable" /\ probe = NoProbe
    /\ catalogue = [version |-> 1, n |-> 0, shift |-> 0]
    /\ items = NewItems
    /\ look = IdleLook
    /\ reader = NoReader
    /\ repos = NoRepos
    /\ cmaps = NoContentMaps
    /\ flt \in {[NoFilter EXCEPT !.all_items = Records([version |-> 1, n |-> n, shift |-> 0]),
                                 !.params = ps] :
                    n \in 0..MaxStore,
                    ps \in FilterParams}

\* The caller filters the loaded records.
filter_call ==
    /\ flt.pc = "idle"
    /\ flt' = [flt EXCEPT !.pc = "once",
                          !.result = _filter_items(flt.all_items, flt.params)]
    /\ UNCHANGED <<reader, repos, cmaps, cacheVars, pipeVars>>

\* The caller filters again with the same entries written in the opposite
\* order.
filter_call_reordered ==
    /\ flt.pc = "once"
    /\ flt' = [flt EXCEPT !.pc = "twice",
                          !.again = _filter_items(flt.all_items, Reverse(flt.params))]
    /\ UNCHANGED <<reader, repos, cmaps, cacheVars, pipeVars>>

NextFilter == filter_call \/ filter_call_reordered

SpecFilter == InitFilter /\ [][NextFilter]_vars

\* ------------------------------------------- several stores, one session
InitRepos ==
    /\ InitCommon /\ callers = {} /\ env = "faulty" /\ probe = NoProbe
    /\ catalogue = [version |-> 1, n |-> 0, shift |-> 0]
    /\ items = NewItems
    /\ look = IdleLook
    /\ reader = NoReader
    /\ flt = NoFilter
    /\ cmaps = NoContentMaps
    /\ repos \in {[NoRepos EXCEPT !.obj = NewObjects, !.n = sizes] :
                      sizes \in [Categories -> 0..MaxEntries]}

\* get_item / get_map / get_task / get_reward on category c: when the list
\* attribute is empty the sweep runs and, if no request of it fails, assigns
\* the index attribute and the list attribute of the owner; then the store
\* is read. A failed sweep raises and assigns nothing.
repo_get(c, out) ==
    LET o == Owner(c)
        listed == repos.obj[o][ListAttr(c)]
        all == Entries(c, repos.n[c])
    IN  /\ repos.obj # <<>>
        /\ repos' =
               IF listed # <<>> THEN [repos EXCEPT !.last = c, !.raised = FALSE]
               ELSE IF out # "body" THEN [repos EXCEPT !.last = c, !.raised = TRUE]
               ELSE [repos EXCEPT !.last = c, !.raised = FALSE,
                                  !.obj[o] = [a \in DOMAIN @ |->
                                                 IF a = ListAttr(c) THEN all
                                                 ELSE IF a = IndexAttr(c) THEN Index(all)
                                                 ELSE @[a]]]
        /\ UNCHANGED <<reader, flt, cmaps, cacheVars, pipeVars>>

NextRepos == \E c \in Categories, out \in Outcomes : repo_get(c, out)

SpecRepos == InitRepos /\ [][NextRepos]_vars

\* --------------------------------------------------- ArtifactsAPI.__init__
\* No session yet; the character may be in a cooldown on the server.
InitConstruct ==
    /\ now = 0
    /\ srvExp \in 0..MaxCooldown
    /\ gateExp = NoneTime
    /\ char = NoChar
    /\ th = [t \in Threads |-> IdleThread]
    /\ calls = 0
    /\ hist = NoHist
    /\ gate = NoGate
    /\ callers = {} /\ env = "faulty" /\ probe = NoProbe /\ NoCache

\* ArtifactsAPI(api_key, character_name) up to line 1807: the attributes
\* before char, then self.get_character(character_name=...), which calls
\* _make_request with source="get_character".
Construct(t) ==
    /\ callers = {}
    /\ th[t].pc \in {"idle", "failed"}
    /\ \A u \in Threads : th[u].pc \in {"idle", "failed"}
    /\ calls < MaxCalls
    /\ th' = [th EXCEPT ![t] =
                 [IdleThread EXCEPT !.pc = "wrapper",
                                    !.stack = <<NewFrame(get_character_request)>>]]
    /\ calls' = calls + 1
    /\ UNCHANGED <<extraVars, gate, cacheVars, now, srvExp, gateExp, char, callers, env, hist, probe>>

ConstructedAlways(result) == TRUE

\* Line 1807 completes, and with it the constructor, only if get_character
\* returned.
Constructed(result) == result = "body"

\* The constructor ends: the session goes to its caller, or the exception
\* of the fetch leaves __init__ and there is no session.
ConstructReturn(t) ==
    /\ callers = {}
    /\ th[t].pc = "done"
    /\ IF Constructed(th[t].result)
       THEN /\ callers' = {t}
            /\ th' = [th EXCEPT ![t] = IdleThread]
       ELSE /\ callers' = {}
            /\ th' = [th EXCEPT ![t] = [IdleThread EXCEPT !.pc = "failed", !.err = th[t].err]]
    /\ UNCHANGED <<extraVars, gate, cacheVars, now, srvExp, gateExp, char, calls, env, hist, probe>>

NextConstruct ==
    \/ \E t \in Threads : Construct(t)
    \/ \E t \in Threads : Wrapper(t)
    \/ \E t \in Threads : \E ans \in AnswersTo(t) : Send(t, ans)
    \/ \E t \in Threads : Except(t)
    \/ \E t \in Threads : ConstructReturn(t)
    \/ Tick

SpecConstruct == InitConstruct /\ [][NextConstruct]_vars

\* ------------------------------------------------- one call, running clock
\* A session whose character may be in a cooldown; its caller makes further
\* calls, whose requests are counted.
InitCall ==
    /\ now = 0
    /\ srvExp \in 0..MaxCooldown
    /\ gateExp = NoneTime
    /\ char = PlayerData(ServerCharacter)
    /\ th = [t \in Threads |-> IdleThread]
    /\ calls = MaxCalls - 1
    /\ hist = [NoHist EXCEPT !.counting = TRUE]
    /\ gate = NoGate
    /\ callers = {1} /\ env = "faulty" /\ probe = NoProbe /\ NoCache

\* The clock advances, also past MaxTime while a thread sleeps in
\* time.sleep.
Elapse ==
    /\ \/ now < MaxTime
       \/ \E t \in Threads : th[t].pc = "sleep" /\ now < th[t].wakeAt
    /\ now' = now + 1
    /\ UNCHANGED <<extraVars, gate, cacheVars, srvExp, gateExp, char, th, calls, callers, env, hist, probe>>

\* The calls that are counted: an action and a read.
CountedRequests == {fight, get_account}

NextCall ==
    \/ \E t \in Threads, r \in CountedRequests : Call(t, r)
    \/ \E t \in Threads : Wrapper(t)
    \/ \E t \in Threads : WaitTest(t)
    \/ \E t \in Threads : SleepSlice(t)
    \/ \E t \in Threads : Wake(t)
    \/ \E t \in Threads : \E ans \in AnswersTo(t) : Send(t, ans)
    \/ \E t \in Threads : Except(t)
    \/ \E t \in Threads : Return(t)
    \/ Elapse

\* A step of thread t inside a call.
ThreadStep(t) ==
    \/ Wrapper(t) \/ WaitTest(t) \/ SleepSlice(t) \/ Wake(t) \/ Except(t)
    \/ \E ans \in AnswersTo(t) : Send(t, ans)

\* The clock keeps advancing, the server answers every request, and the
\* thread in the call keeps running.
SpecCall ==
    /\ InitCall /\ [][NextCall]_vars
    /\ WF_vars(Elapse)
    /\ \A t \in Threads : WF_vars(ThreadStep(t))

\* ----------------------------------------------------------------------
\* Properties
\* ----------------------------------------------------------------------
InCall(t) == th[t].stack # <<>>

Outer(t) == th[t].stack[1]

\* The caller takes the step that sends the request of its top frame.
Sends(t) == th[t].pc = "send" /\ th'[t] # th[t]

IsAction(f) == f.method = "POST"

\* Errors that do not come from the status-code mapping.
NonStatusKinds ==
    {"None", "ConnectionError", "JSONDecodeError", "AttributeError", "ValueError"}

\* C1: for any number of concurrent callers, no action request is sent
\* before the cooldown expiration the server reported for the action request
\* before it.
C1_Serialized ==
    [][\A t \in Threads : (Sends(t) /\ IsAction(Top(t))) => now >= srvExp]_vars

\* C2: with a single caller, after an action call returned successfully and
\* the server reported cooldown expiration E for it (E = srvExp until the
\* server accepts the next action), the next call's request is not sent
\* before E: while now < E the caller is in the decorator's wait (or the wait
\* itself has raised), and when it is about to send, now >= E.
C2_NextActionWaits ==
    \A t \in Threads :
        (InCall(t) /\ hist.prevOk /\ ~th[t].accepted /\ Len(th[t].stack) = 1) =>
            /\ th[t].pc = "send" => now >= srvExp
            /\ (now < srvExp /\ Outer(t).nsent = 0) =>
                   th[t].pc \in {"wrapper", "wait", "remain", "sleep"}

C2_Witness ==
    \E t \in Threads :
        /\ InCall(t) /\ hist.prevOk /\ ~th[t].accepted
        /\ Outer(t).source = "fight" /\ Outer(t).nsent = 0
        /\ th[t].pc = "sleep" /\ now < srvExp

\* C3: when a POST action call that succeeded has returned, the gate's
\* expiration equals the cooldown_expiration of the freshly fetched
\* character state.
C3_ArmedOnReturn ==
    (hist.prevOk /\ \A t \in Threads : th[t].pc = "idle") =>
        gateExp = fromisoformat(char.cooldown_expiration)

\* C4: when craft_item is answered 493, the next thing the call does is
\* raise TooLowLevel to its caller: the request is not sent again.
C4_NoRetryOfDomainError ==
    [][\A t \in Threads :
          (/\ th[t].pc = "except" /\ th[t].err.msg.code = 493
           /\ Top(t).source = "craft_item" /\ th'[t] # th[t]) =>
              /\ th'[t].pc = "done"
              /\ th'[t].result = "raised"
              /\ th'[t].err.kind = "TooLowLevel"]_vars

\* C5: one call of _make_request sends its request at most 1 + 3 times,
\* every attempt with the method, url and body of the first; a call that
\* gives up has made all of them.  The same for the character fetch.
C5_BoundedSameRetries ==
    \A t \in Threads :
        /\ \A i \in 1..Len(th[t].stack) :
              LET f == th[t].stack[i]
              IN  /\ f.nsent <= DefaultRetries + 1
                  /\ f.nsent + f.retries <= DefaultRetries + 1
                  /\ f.nsent > 0 => f.last = f.first
        /\ (th[t].pc = "done" /\ th[t].result = "None") =>
              Outer(t).nsent = DefaultRetries + 1

C5_Witness ==
    \E t \in Threads :
        /\ Len(th[t].stack) = 2
        /\ Outer(t).source = "move" /\ Outer(t).nsent = DefaultRetries + 1
        /\ Top(t).source = "get_character" /\ Top(t).nsent = DefaultRetries + 1

\* C6: a call whose last attempt failed ends by raising that error to its
\* caller; it does not return normally.
C6_ExhaustionSurfaces ==
    \A t \in Threads :
        (th[t].pc = "done" /\ th[t].err.kind # "None") => th[t].result = "raised"

\* C7: every error kind of the taxonomy is raised for at least one status
\* code, and two different status codes that raise a kind of the taxonomy
\* raise different kinds.
C7_DistinctKinds ==
    /\ \A k \in ErrorKinds : \E c \in StatusCodes : _raise(c) = k
    /\ (probe.a # probe.b /\ probe.ka \in ErrorKinds /\ probe.kb \in ErrorKinds) =>
           probe.ka # probe.kb

\* C8: once a response with status 452 has come back, the session sends no
\* further request.
C8_AuthFailureStops ==
    [][hist.auth = "failed" => \A t \in Threads : ~Sends(t)]_vars

\* C9: a 490 answer is informational: no error carries the code 490, the
\* request answered 490 with a well-formed body is not retried, and the call
\* goes on to the character refresh and then returns the response body.
C9_InformationalNoRetry ==
    \A t \in Threads :
        /\ th[t].err.msg.code # 490
        /\ (InCall(t) /\ Outer(t).resp = [status |-> 490, bodyOk |-> TRUE]) =>
              \/ Len(th[t].stack) = 2
              \/ th[t].pc = "done" /\ th[t].result = "body" /\ th[t].refreshed

C11_ReturnsOnlyWhenExpired ==
    \A t \in Threads :
        (/\ InCall(t)
         /\ th[t].pc = "send"
         /\ KwGet(Top(t), "source") # "get_character") =>
            gateExp # NoneTime /\ now >= gateExp

C11_Witness ==
    \E t \in Threads :
        /\ InCall(t) /\ th[t].pc = "send" /\ Len(th[t].stack) = 1
        /\ Outer(t).source = "fight" /\ Outer(t).nsent = 0
        /\ hist.prevOk /\ gateExp = srvExp /\ gateExp = MaxCooldown + 1
        /\ now = gateExp

\* C12: every sleep slice of wait_for_cooldown lasts d with 0 <= d <= 100 ms
\* and d <= the time remaining until the expiration, however the clock
\* advances between the is_on_cooldown() check and the computation of the
\* remaining time: the step after the check always starts such a sleep and
\* never raises.
C12_SliceWithinRemaining ==
    [][\A t \in Threads :
          (th[t].pc = "remain" /\ th'[t] # th[t]) =>
              /\ th'[t].pc = "sleep"
              /\ th'[t].wakeAt - now \in 0..Slice
              /\ th'[t].wakeAt <= gateExp]_vars

\* C13: if the clock keeps advancing and the gate is re-armed only finitely
\* often, every call of wait_for_cooldown eventually returns.
C13_WaitReturns ==
    \A t \in Threads : (th[t].pc = "wait") ~> (th[t].pc = "send")

\* C14: on a gate that was never armed is_on_cooldown() is false, and a
\* thread that calls wait_for_cooldown goes from the call straight to the
\* return: it is never computing a remaining time, sleeping or raising.
C14_UnarmedGateIsClear ==
    gateExp = NoneTime =>
        /\ ~is_on_cooldown
        /\ \A t \in Threads : th[t].pc \in {"idle", "wait", "send"}

C14_Witness ==
    /\ gateExp = NoneTime
    /\ now > 0
    /\ \E t \in Threads : th[t].pc = "send"

\* C15: after set_cooldown_from_expiration(t) the gate holds t, whatever it
\* held before (also when t is earlier than the previous expiration), and
\* is_on_cooldown() is true exactly when now < t.
C15_SingleWindow ==
    gate.arms > 0 =>
        /\ gateExp = gate.t
        /\ is_on_cooldown <=> now < gate.t

C15_Witness ==
    /\ gate.arms = 2
    /\ gate.prev # NoneTime /\ gate.t < gate.prev
    /\ gateExp = gate.t
    /\ now < gate.prev

\* C16: the gate's expiration is read and written only under the lock, so
\* between a thread's is_on_cooldown() check and its computation of the
\* remaining time no other thread writes the expiration: the remaining time
\* is computed from the window the check observed.
C16_WindowStableBetweenCheckAndRead ==
    [][(\E t \in Threads : th[t].pc = "remain") => gateExp' = gateExp]_vars

\* C17: loading is idempotent: whatever the catalogue holds, also nothing,
\* two get_item calls that returned while the server's version stayed the
\* same have performed exactly one sweep between them.
C17_OneSweepForTwoLookups ==
    (look.done = 2 /\ ~look.changed /\ ~look.failed) => look.sweeps = 1

\* C18: the category is rebuilt exactly when the server's version differs
\* from the stored one: once a lookup has returned after the server's last
\* change of version, the record list holds the records of that version.
C18_RebuiltOnNewVersion ==
    (look.pc = "idle" /\ look.since >= 1 /\ ~look.failed) =>
        items.all_items = Records(catalogue)

\* C19: a sweep of a catalogue with N records, after the count request,
\* requests the pages 1..ceil(N/100) with size=100, each once and in
\* ascending order, and then the store holds the N records in page order.
C19_SweepFetchesEveryPageOnce ==
    (look.pc = "find" /\ look.swept) =>
        LET N == catalogue.n
            k == CHOOSE j \in 0..N : PageSize * (j - 1) < N /\ N <= PageSize * j
        IN  /\ look.reqs = <<[size |-> 1, page |-> 0]>> \o
                               [p \in 1..k |-> [size |-> PageSize, page |-> p]]
            /\ Len(items.all_items) = N
            /\ \A j \in 1..N : items.all_items[j] = Record(catalogue.version, j)
            /\ DOMAIN items.cache = 1..N

C19_Witness ==
    /\ look.pc = "find" /\ look.swept
    /\ catalogue.n = 2 * PageSize + 1
    /\ Len(look.reqs) = 4
    /\ Len(items.all_items) = catalogue.n

\* C20: a rebuild is all-or-nothing: when a request of the sweep has
\* failed, the index and the record list hold what they held before the
\* sweep started, and the call ends by raising to its caller.
C20_AllOrNothing ==
    look.bad =>
        /\ items = look.before
        /\ look.err # "None"
        /\ look.pc \in {"raised", "idle"}
        /\ look.pc = "idle" => look.failed

C20_Witness ==
    /\ look.bad /\ look.pc = "raised"
    /\ look.i = 2 /\ Len(look.all_items) = 2 * PageSize
    /\ items = NewItems

\* C21: the store is swapped in atomically: a thread that found the record
\* list loaded reads an index built from that list, and a thread never
\* starts a sweep after finding the record list still empty with the index
\* of another thread's sweep already assigned.
C21_AtomicSwap ==
    /\ reader.pc = "find" => items.cache = Index(items.all_items)
    /\ ~reader.half

\* C22: a sweep request never waits on the cooldown gate: a call of
\* _make_request made by a sweep is never computing a remaining time or
\* sleeping in wait_for_cooldown.
C22_SweepNeverWaits ==
    \A t \in Threads :
        (InCall(t) /\ Len(th[t].stack) = 1 /\ Outer(t).source = "get_all_items") =>
            th[t].pc \notin {"remain", "sleep"}

\* ------------------------------------------------- lookups and filters
\* What a supplied predicate asks of a record, as get_item documents it.
Satisfies(item, p) ==
    CASE p.key = <<"craft_material">> ->
             /\ ~item.craft.isNone
             /\ p.value.s \in {item.craft.items[j] : j \in 1..Len(item.craft.items)}
      [] p.key = <<"craft_skill">> -> ~item.craft.isNone /\ item.craft.skill = p.value.s
      [] p.key = <<"max_level">> -> ~(item.level > p.value.n)
      [] p.key = <<"min_level">> -> ~(item.level < p.value.n)
      [] p.key = <<"name">> -> search(p.value.l, item.name)
      [] p.key = <<"item_type">> -> item.type = p.value.s

\* The records of all that satisfy every predicate of params, in the order
\* of all.
Matching(all, params) ==
    LET keep == {j \in 1..Len(all) :
                     \A q \in 1..Len(params) : Satisfies(all[j], params[q])}
    IN  [i \in 1..Cardinality(keep) |->
            all[CHOOSE j \in keep : Cardinality({k \in keep : k <= j}) = i]]

PointLookup(l) == HasKey(l.params, <<"item_code">>)

Returned(l) == l.pc = "idle" /\ l.result # NoResult

\* C23: after a successful sweep every record of the fetched pages is found
\* again under its code with all its fields as the page gave them, and a
\* point lookup that returned gave back exactly the stored record of that
\* code.
C23_RoundTrip ==
    /\ (look.pc = "find" /\ look.swept) =>
           /\ items.all_items = look.all_items
           /\ \A j \in 1..Len(look.all_items) :
                  cache_get(items.cache, look.all_items[j].code)
                      = [kind |-> "item", val |-> <<look.all_items[j]>>]
    /\ (Returned(look) /\ PointLookup(look)) =>
           \A j \in 1..Len(items.all_items) :
               items.all_items[j].code = ValueOf(look.params, <<"item_code">>).n =>
                   look.result = [kind |-> "item", val |-> <<items.all_items[j]>>]

\* A sweep of more than two pages has just been stored and the lookup of a
\* record of the second page returned it.
C23_Witness ==
    /\ Returned(look) /\ PointLookup(look) /\ look.swept
    /\ Len(items.all_items) = 2 * PageSize + 1
    /\ look.result.kind = "item"
    /\ look.result.val = <<Record(catalogue.version, PageSize + 1)>>

\* C24: a point lookup of a code that no loaded record has returns None
\* without raising, and when the category was already loaded the store is
\* what it was before the call.
C24_AbsentKeyGivesNone ==
    (/\ Returned(look) /\ PointLookup(look)
     /\ \A j \in 1..Len(items.all_items) :
            items.all_items[j].code # ValueOf(look.params, <<"item_code">>).n) =>
        /\ look.result = [kind |-> "None", val |-> <<>>]
        /\ look.err = "None"
        /\ ~look.swept => items = look.before

\* A loaded category of one full page was asked for a code beyond it.
C24_Witness ==
    /\ Returned(look) /\ PointLookup(look) /\ ~look.swept
    /\ Len(items.all_items) = PageSize
    /\ ValueOf(look.params, <<"item_code">>).n = PageSize + 1
    /\ look.result.kind = "None"
    /\ items = look.before

\* C25: a filter call on a category that was never loaded sweeps first and
\* returns the matching records of what the sweep fetched, the empty
\* sequence when none matches, without raising.
C25_FilterLoadsFirst ==
    (Returned(look) /\ ~PointLookup(look) /\ look.before = NewItems) =>
        /\ look.swept /\ look.sweeps > 0
        /\ look.err = "None"
        /\ items.all_items = look.all_items
        /\ ~look.changed => items.all_items = Records(catalogue)
        /\ look.result = [kind |-> "list", val |-> Matching(items.all_items, look.params)]

\* The first call on a category of a hundred records was a filter no record
\* matches; it swept and returned the empty sequence.
C25_Witness ==
    /\ Returned(look) /\ ~PointLookup(look) /\ look.before = NewItems
    /\ look.calls = 1 /\ look.sweeps = 1
    /\ Len(items.all_items) = PageSize
    /\ look.params = <<Param(<<"item_type">>, Str("tool"))>>
    /\ look.result = [kind |-> "list", val |-> <<>>]

\* ------------------------------------------------------- filter results
Plain(params) == SelectSeq(params, LAMBDA p : p.key[1] # "~")

OrGroups(params) == SelectSeq(params, LAMBDA p : p.key[1] = "~")

\* C26: with plain predicates only, the result is the records that satisfy
\* every predicate, in store order, whichever order the predicates come in.
C26_ConjunctionInStoreOrder ==
    (flt.pc # "idle" /\ OrGroups(flt.params) = <<>>) =>
        /\ flt.result = Matching(flt.all_items, flt.params)
        /\ flt.pc = "twice" => flt.again = flt.result

\* Two predicates, each of which alone keeps more records than both
\* together, were applied in both orders to six records and kept some.
C26_Witness ==
    /\ flt.pc = "twice" /\ Len(flt.params) = 2 /\ OrGroups(flt.params) = <<>>
    /\ Len(flt.all_items) = MaxStore
    /\ flt.result # <<>>
    /\ Len(flt.result) < Len(Matching(flt.all_items, <<flt.params[1]>>))
    /\ Len(flt.result) < Len(Matching(flt.all_items, <<flt.params[2]>>))
    /\ flt.again = flt.result

\* C27: with a '~field' key whose value is a list, the result is the
\* records, among those passing the plain predicates, whose field equals
\* one of the listed values.
C27_OrGroupKeepsAnyListed ==
    (/\ flt.pc # "idle"
     /\ OrGroups(flt.params) # <<>>
     /\ \A q \in 1..Len(flt.params) :
            flt.params[q].key[1] = "~" => flt.params[q].value.kind = "list") =>
        LET passing == Matching(flt.all_items, Plain(flt.params))
            groups == OrGroups(flt.params)
        IN  flt.result =
                SelectSeq(passing, LAMBDA item :
                    \A g \in 1..Len(groups) :
                        \E v \in 1..Len(groups[g].value.l) :
                            PyGet(item, Tail(groups[g].key)) = Str(groups[g].value.l[v]))

\* ---------------------------------------------------- separate stores
\* The index and the record list the session keeps for category c.
StoreOf(r, c) ==
    [index |-> r.obj[Owner(c)][IndexAttr(c)], list |-> r.obj[Owner(c)][ListAttr(c)]]

\* C28: a call on one category leaves the index and the record list of
\* every other category as they were.
C28_StoresAreSeparate ==
    [][\A c \in Categories :
           (repos.obj # <<>> /\ c # repos'.last) => StoreOf(repos', c) = StoreOf(repos, c)]_vars

\* Tasks were loaded first and the rewards just now: both stores of the one
\* Tasks object are filled, each with the records of its own category, and
\* the items are still unloaded.
C28_Witness ==
    /\ repos.obj # <<>> /\ repos.last = "rewards" /\ ~repos.raised
    /\ repos.n["tasks"] = MaxEntries /\ repos.n["rewards"] = 1
    /\ StoreOf(repos, "tasks") =
           [index |-> Index(Entries("tasks", MaxEntries)), list |-> Entries("tasks", MaxEntries)]
    /\ StoreOf(repos, "rewards") =
           [index |-> Index(Entries("rewards", 1)), list |-> Entries("rewards", 1)]
    /\ StoreOf(repos, "items") = [index |-> <<>>, list |-> <<>>]

\* ------------------------------------------------------ character state
\* C29: when a request other than the character fetch returns its body, the
\* character state is what the server returned in a fetch made after the
\* request's own network call: it was assigned during this call and equals
\* the server's current state, field for field.
C29_RefreshedAfterRequest ==
    \A t \in Threads :
        (/\ InCall(t) /\ th[t].pc = "done" /\ th[t].result = "body"
         /\ Outer(t).source # "get_character") =>
            /\ th[t].refreshed
            /\ Outer(t).nsent > 0
            /\ char = ServerCharacter

\* An action was answered 200 with a new cooldown and returned; the
\* character state carries that new expiration, which the state before the
\* call did not.
C29_Witness ==
    \E t \in Threads :
        /\ InCall(t) /\ th[t].pc = "done" /\ th[t].result = "body"
        /\ Outer(t).method = "POST" /\ Outer(t).resp.status = 200
        /\ srvExp > now
        /\ char.cooldown_expiration = IsoFormat(srvExp)
        /\ char.cooldown_expiration # IsoFormat(0)

\* -------------------------------------------------------- construction
\* C30: a caller holds a session only if the session has a character state;
\* when the constructor's character fetch was not answered 200 with a
\* readable body the constructor raises, and a constructor that raised
\* hands no session over.
C30_NoSessionWithoutCharacter ==
    /\ callers # {} => char # NoChar
    /\ \A t \in Threads :
           /\ (th[t].pc = "done" /\ callers = {}) =>
                  \/ /\ th[t].result = "body"
                     /\ Top(t).resp = [status |-> 200, bodyOk |-> TRUE]
                     /\ char # NoChar
                  \/ /\ th[t].result = "raised"
                     /\ char = NoChar
           /\ th[t].pc = "failed" => t \notin callers

\* The first fetch of a constructor failed, its retry raised AttributeError
\* in the decorator, and the constructor ended without a session.
C30_Witness ==
    \E t \in Threads :
        /\ th[t].pc = "failed" /\ th[t].err.kind = "AttributeError"
        /\ callers = {} /\ char = NoChar

\* ------------------------------------------------------ one POST per call
\* C31: once the POST of an invocation has been answered 200, the only
\* requests the invocation still sends are character fetches; the POST
\* itself does not go out again.
C31_AcceptedPostNotResent ==
    [][\A t \in Threads :
           (InCall(t) /\ th[t].accepted /\ Sends(t)) =>
               Top(t).source = "get_character"]_vars

\* ------------------------------------------------- duplicate case values
\* The kind the first case listed for code names.
FirstListed(code) ==
    LET i == CHOOSE k \in 1..Len(RaiseCases) :
                 /\ RaiseCases[k][1] = code
                 /\ \A j \in 1..(k - 1) : RaiseCases[j][1] # code
    IN  RaiseCases[i][2]

Listed(code) == \E k \in 1..Len(RaiseCases) : RaiseCases[k][1] = code

\* C32: _raise applies the first case listed for a code: 486 raises
\* ActionAlreadyInProgress, 497 raises InventoryFull, and so for every code
\* the mapping lists.
C32_FirstMappingWins ==
    /\ (probe.ka # "pending" /\ probe.a = 486) => probe.ka = "ActionAlreadyInProgress"
    /\ (probe.ka # "pending" /\ probe.a = 497) => probe.ka = "InventoryFull"
    /\ (probe.kb # "pending" /\ probe.b = 486) => probe.kb = "ActionAlreadyInProgress"
    /\ (probe.kb # "pending" /\ probe.b = 497) => probe.kb = "InventoryFull"
    /\ (probe.ka # "pending" /\ Listed(probe.a)) => probe.ka = FirstListed(probe.a)
    /\ (probe.kb # "pending" /\ Listed(probe.b)) => probe.kb = FirstListed(probe.b)

\* _raise was called for both codes that are listed twice.
C32_Witness ==
    /\ probe.a = 486 /\ probe.ka = "ActionAlreadyInProgress"
    /\ probe.b = 497 /\ probe.kb = "InventoryFull"

\* --------------------------------------------- character fetch and gate
\* C33: a character fetch, first attempt or retry, never enters
\* wait_for_cooldown and never arms the gate.
C33_CharacterFetchSkipsGate ==
    [][\A t \in Threads :
           (InCall(t) /\ Top(t).source = "get_character" /\ th'[t] # th[t]) =>
               /\ th'[t].pc \notin {"wait", "remain", "sleep"}
               /\ th[t].pc = "wrapper" => gateExp' = gateExp]_vars

\* ------------------------------------------------ one refresh, no recursion
\* C34: a request other than the character fetch whose response is accepted
\* is followed by one call of get_character, made by that very step; a
\* character fetch is started in no other way and starts none itself; and
\* the request returns its body only in the step in which that fetch
\* returned.
C34_OneRefreshNoRecursion ==
    [][\A t \in Threads :
           LET before == th[t].stack
               after == th'[t].stack
           IN  /\ Len(after) <= 2
               /\ Len(after) = 2 =>
                      /\ after[1].source # "get_character"
                      /\ after[2].source = "get_character"
               /\ (Sends(t) /\ Len(before) = 1 /\ Top(t).source # "get_character"
                   /\ th'[t].pc # "except") =>
                      /\ Len(after) = 2
                      /\ after[2] = NewFrame(get_character_request)
                      /\ after[1].nsent = before[1].nsent + 1
               /\ (Len(after) = 2 /\ Len(before) # 2) =>
                      /\ Sends(t) /\ Len(before) = 1
                      /\ after[1].resp.status \in {200, 490}
               /\ (th[t].pc # "done" /\ th'[t].pc = "done" /\ th'[t].result = "body"
                   /\ after[1].source # "get_character") =>
                      /\ Sends(t) /\ Len(before) = 2
                      /\ Top(t).source = "get_character"
                      /\ th'[t].refreshed]_vars

\* A GET that is no character fetch was answered 200, its one refresh
\* returned, and the call is about to return its body.
C34_Witness ==
    \E t \in Threads :
        /\ InCall(t) /\ th[t].pc = "done" /\ th[t].result = "body"
        /\ Outer(t).source = "get_account" /\ Outer(t).nsent = 1
        /\ th[t].refreshed /\ Len(th[t].stack) = 1

\* ------------------------------------------------------------ termination
\* C35: every call of _make_request ends, by returning or by raising; each
\* retry is made with a retry counter one lower; and one call sends at most
\* (retries + 1) requests of its own plus (retries + 1) character fetches
\* for each of them.
C35_CallTerminates ==
    /\ [](hist.sent <= (DefaultRetries + 1) * (DefaultRetries + 2))
    /\ [][\A t \in Threads :
              (th[t].pc = "except" /\ th'[t].pc = "wrapper") =>
                  /\ Len(th'[t].stack) = Len(th[t].stack)
                  /\ Top(t).retries > 0
                  /\ th'[t].stack[Len(th[t].stack)].retries = Top(t).retries - 1]_vars
    /\ \A t \in Threads : (th[t].pc # "idle") ~> (th[t].pc = "done")

\* A call has ended after its request was accepted on each of its four
\* attempts and every character fetch failed four times.
C35_Witness ==
    \E t \in Threads :
        /\ th[t].pc = "done"
        /\ hist.sent = (DefaultRetries + 1) * (DefaultRetries + 2)
        /\ Outer(t).nsent = DefaultRetries + 1

\* ------------------------------------------------- index and list agree
\* C36: when a sweep has stored its result, the keys of the index are the
\* codes that occur in the record list, every code maps to the last record
\* of the list that carries it, and index and list are those of this one
\* sweep.
C36_IndexAgreesWithList ==
    (look.pc = "find" /\ look.swept) =>
        LET all == items.all_items
        IN  /\ all = look.all_items
            /\ DOMAIN items.cache = {all[j].code : j \in 1..Len(all)}
            /\ \A j \in 1..Len(all) :
                   \/ items.cache[all[j].code] = all[j]
                   \/ /\ \E k \in (j + 1)..Len(all) : all[k].code = all[j].code
                      /\ items.cache[all[j].code].code = all[j].code

\* The listing moved during the sweep: the list holds the record of one code
\* twice, in two versions, and the index holds the later one.
C36_Witness ==
    /\ look.pc = "find" /\ look.swept
    /\ \E j \in 1..Len(items.all_items) :
           /\ j < Len(items.all_items)
           /\ items.all_items[j + 1].code = items.all_items[j].code
           /\ items.all_items[j + 1] # items.all_items[j]
           /\ items.cache[items.all_items[j].code] = items.all_items[j + 1]

\* ------------------------------------------------------- unlisted codes
\* The status codes a response can carry.
HttpCodes == 100..599

\* C37: for a status code that the mapping does not list and that is neither
\* 200 nor 490, _raise raises the generic Exception; it returns without
\* raising for 200 and 490 and for no other code.
C37_UnlistedRaisesGeneric ==
    /\ \A c \in HttpCodes :
           /\ (_raise(c) = "NoRaise") <=> (c \in {200, 490})
           /\ (~Listed(c) /\ c # 200) => _raise(c) = "Exception"
    /\ probe.ka # "pending" =>
           /\ (probe.ka = "NoRaise") <=> (probe.a \in {200, 490})
           /\ (~Listed(probe.a) /\ probe.a # 200) => probe.ka = "Exception"
    /\ probe.kb # "pending" =>
           /\ (probe.kb = "NoRaise") <=> (probe.b \in {200, 490})
           /\ (~Listed(probe.b) /\ probe.b # 200) => probe.kb = "Exception"

\* _raise was called for 500, which the mapping does not list, and for 490.
C37_Witness ==
    /\ probe.a = 500 /\ probe.ka = "Exception"
    /\ probe.b = 490 /\ probe.kb = "NoRaise"

\* ------------------------------------------------- ContentMaps: the cells
\* abs() of Python.
Abs(n) == IF n < 0 THEN 0 - n ELSE n

\* Position(x, y) and its Manhattan distance to another position.
Position(x, y) == [x |-> x, y |-> y]

dist(self, other) == Abs(self.x - other.x) + Abs(self.y - other.y)

\* The coordinates, content types and content codes of the cells of a run:
\* two cells at distance 1 from (0, 0), one at distance 2; one content type
\* for each branch of the loop.
Coords == {<<-1, 0>>, <<0, 1>>, <<1, 1>>}

ContentTypes == {"monster", "resource", "workshop", "", "bank"}

ContentCodes == {"a", "b"}

\* One element of api.maps.get(). found says whether api.monsters.get or
\* api.resources.get returns an object for the cell's code; reading .name of
\* what it returns otherwise raises.
MapData ==
    {d \in {[x |-> xy[1], y |-> xy[2], content_type |-> t, content_code |-> c,
             found |-> f] :
                xy \in Coords, t \in ContentTypes, c \in ContentCodes, f \in BOOLEAN} :
         d.found \/ d.content_type \in {"monster", "resource"}}

\* The ContentMap built for a cell: its code, its position, and the skill,
\* which depends on the branch taken.
ContentMap(d) ==
    [code |-> d.content_code,
     skill |-> CASE d.content_type = "monster" -> "combat"
                 [] d.content_type = "resource" -> "resource.skill"
                 [] OTHER -> "None",
     pos |-> Position(d.x, d.y)]

\* The end of one iteration with the last cell written over an equally
\* distant one.
StoreLastOnTie(maps, d) ==
    LET content_map == ContentMap(d)
        content_code == d.content_code
    IN  IF content_code \in DOMAIN maps
        THEN IF dist(content_map.pos, Position(0, 0))
                    <= dist(maps[content_code].pos, Position(0, 0))
             THEN [maps EXCEPT ![content_code] = content_map]
             ELSE maps
        ELSE (content_code :> content_map) @@ maps

\* The end of one iteration: the cell's ContentMap is stored under its code
\* when the code is new or the cell is strictly nearer to (0, 0) than the
\* one stored.
Store(maps, d) ==
    LET content_map == ContentMap(d)
        content_code == d.content_code
        new_distance == dist(content_map.pos, Position(0, 0))
    IN  IF content_code \in DOMAIN maps
        THEN IF new_distance < dist(maps[content_code].pos, Position(0, 0))
             THEN [maps EXCEPT ![content_code] = content_map]
             ELSE maps
        ELSE (content_code :> content_map) @@ maps

\* The loop of _cache_content_maps from cell i on: a cell of a monster or a
\* resource that the lookup does not find raises, which ends the loop with
\* what was stored so far; a cell with an empty content type is passed over.
RECURSIVE Loop(_, _, _)
Loop(maps, all_maps, i) ==
    IF i > Len(all_maps) THEN [maps |-> maps, processed |-> i - 1, pc |-> "done"]
    ELSE LET map_data == all_maps[i]
         IN  IF map_data.content_type \in {"monster", "resource"} /\ ~map_data.found
             THEN [maps |-> maps, processed |-> i - 1, pc |-> "error"]
             ELSE IF map_data.content_type = ""
             THEN Loop(maps, all_maps, i + 1)
             ELSE Loop(Store(maps, map_data), all_maps, i + 1)

\* ContentMaps(api): self.maps = {} and _cache_content_maps(). api.maps.get()
\* returns a list of cells or raises; every exception is caught and logged.
_cache_content_maps ==
    /\ cmaps.pc = "new"
    /\ \/ cmaps' = [cmaps EXCEPT !.pc = "error"]
       \/ \E k \in 0..MaxCells : \E all_maps \in [1..k -> MapData] :
              LET end == Loop(<<>>, all_maps, 1)
              IN  cmaps' = [pc |-> end.pc, all_maps |-> all_maps,
                            processed |-> end.processed, maps |-> end.maps]
    /\ UNCHANGED <<reader, flt, repos, cacheVars, pipeVars>>

InitContent ==
    /\ InitCommon /\ callers = {} /\ env = "reliable" /\ probe = NoProbe
    /\ catalogue = [version |-> 1, n |-> 0, shift |-> 0]
    /\ items = NewItems
    /\ look = IdleLook
    /\ reader = NoReader
    /\ flt = NoFilter
    /\ repos = NoRepos
    /\ cmaps = NoContentMaps

NextContent == _cache_content_maps

SpecContent == InitContent /\ [][NextContent]_vars

\* The cells the loop went through that carry code c and a content type.
Carrying(c) ==
    {i \in 1..cmaps.processed :
         /\ cmaps.all_maps[i].content_code = c
         /\ cmaps.all_maps[i].content_type # ""}

\* The distance of cell i of the list to (0, 0).
DistOf(i) == dist(Position(cmaps.all_maps[i].x, cmaps.all_maps[i].y), Position(0, 0))

\* The first of the nearest cells among the cells I.
Nearest(I) ==
    CHOOSE k \in I : \A j \in I : DistOf(k) < DistOf(j) \/ (DistOf(k) = DistOf(j) /\ k <= j)

\* The orders the cells of the list can come in.
Orders(n) == {q \in [1..n -> 1..n] : \A i, j \in 1..n : q[i] = q[j] => i = j}

\* C38: for every content code, ContentMaps keeps the first of the cells
\* nearest to (0, 0) among the cells it went through that carry the code and
\* a content type, and keeps nothing for a code that no such cell carries;
\* a cell with an empty content type is never kept; when the whole list is
\* gone through, every other order of the same cells keeps the same codes
\* at the same distances.
C38_NearestCellKept ==
    /\ DOMAIN cmaps.maps \subseteq ContentCodes
    /\ \A c \in ContentCodes :
           IF Carrying(c) = {} THEN c \notin DOMAIN cmaps.maps
           ELSE /\ c \in DOMAIN cmaps.maps
                /\ cmaps.maps[c] = ContentMap(cmaps.all_maps[Nearest(Carrying(c))])
    /\ cmaps.pc = "done" =>
           \A q \in Orders(Len(cmaps.all_maps)) :
               LET other == Loop(<<>>, [i \in 1..Len(cmaps.all_maps) |-> cmaps.all_maps[q[i]]], 1).maps
               IN  /\ DOMAIN other = DOMAIN cmaps.maps
                   /\ \A c \in DOMAIN other :
                          dist(other[c].pos, Position(0, 0))
                              = dist(cmaps.maps[c].pos, Position(0, 0))

\* Three cells carry code "a": the first at distance 2, then two different
\* cells at distance 1; the first of these two is the one kept.
C38_Witness ==
    /\ cmaps.pc = "done" /\ Len(cmaps.all_maps) = 3
    /\ \A i \in 1..3 : cmaps.all_maps[i].content_code = "a"
                       /\ cmaps.all_maps[i].content_type # ""
    /\ DistOf(1) = 2 /\ DistOf(2) = 1 /\ DistOf(3) = 1
    /\ cmaps.all_maps[2].x # cmaps.all_maps[3].x
    /\ cmaps.maps["a"] = ContentMap(cmaps.all_maps[2])

====
